---- MODULE Spec2Model ----
(***************************************************************************)
(* Model of direeo/llm-qa: the web entry point (app.py) and the console    *)
(* entry point (LLM_QA_CLI.py).  A Python str is a sequence of Unicode     *)
(* code points; None is the empty tuple and a present value x is <<x>>.    *)
(***************************************************************************)
EXTENDS Integers, Sequences, FiniteSets

\* ------------------------------------------------------------------ bounds
\* longest input string given to the normalizer
MaxLen == 3
\* longest question typed into the form or at the prompt
MaxQLen == 2
\* number of request handlers the web framework runs at the same time
MaxHandlers == 2

\* ------------------------------------------------- Python's str primitives
\* string.punctuation: !"#$%&'()*+,-./:;<=>?@[\]^_`{|}~
Punctuation == (33..47) \cup (58..64) \cup (91..96) \cup (123..126)

\* the code points c with chr(c).isspace(): what str.split() and str.strip()
\* without arguments treat as whitespace
Whitespace ==
  (9..13) \cup (28..32) \cup {133, 160, 5760} \cup (8192..8202)
  \cup {8232, 8233, 8239, 8287, 12288}

\* the code points the normalizer is run on:
\* TAB SPACE ! . A a NBSP, U+0130 (I with dot above), U+03A3 (capital sigma),
\* U+03D2 (upsilon with hook symbol: upper-case, with no lower-case form)
Alphabet == {9, 32, 33, 46, 65, 97, 160, 304, 931, 978}

\* rows of the Unicode tables str.lower() reads, for the code points of
\* Alphabet and of their lower-case forms (U+0069, U+0307, U+03C2, U+03C3)
Cased == (65..90) \cup (97..122) \cup {304, 931, 962, 963, 978}
CaseIgnorable == {39, 46, 58, 94, 96, 775}
\* the code points c with chr(c).isupper()
Uppercase == (65..90) \cup {304, 931, 978}

\* does s[i] = U+03A3 stand in the Final_Sigma context:
\* \p{cased}\p{case-ignorable}* U+03A3 !(\p{case-ignorable}*\p{cased})
final_sigma(s, i) ==
  /\ \E j \in 1..(i - 1) :
       /\ s[j] \in Cased
       /\ \A k \in (j + 1)..(i - 1) : s[k] \in CaseIgnorable
  /\ ~ \E j \in (i + 1)..Len(s) :
       /\ s[j] \in Cased
       /\ \A k \in (i + 1)..(j - 1) : s[k] \in CaseIgnorable

\* the lower-case form of the character s[i] of s (one or two code points)
lower_char(s, i) ==
  IF s[i] \in 65..90 THEN <<s[i] + 32>>
  ELSE IF s[i] = 304 THEN <<105, 775>>
  ELSE IF s[i] = 931 THEN (IF final_sigma(s, i) THEN <<962>> ELSE <<963>>)
  ELSE <<s[i]>>

RECURSIVE lower_from(_, _)
lower_from(s, i) ==
  IF i > Len(s) THEN <<>> ELSE lower_char(s, i) \o lower_from(s, i + 1)

\* text.lower()
lower(s) == lower_from(s, 1)

\* a plausible bug: a hand-written punctuation list that forgot the full stop
translate_forgets_dot(s) == SelectSeq(s, LAMBDA c : c \notin (Punctuation \ {46}))

\* text.translate(str.maketrans('', '', string.punctuation))
translate(s) == SelectSeq(s, LAMBDA c : c \notin Punctuation)

\* text.split(): the maximal runs of non-whitespace characters, in order
RECURSIVE split_from(_, _, _)
split_from(s, i, cur) ==
  IF i > Len(s) THEN (IF cur = <<>> THEN <<>> ELSE <<cur>>)
  ELSE IF s[i] \in Whitespace
       THEN (IF cur = <<>> THEN <<>> ELSE <<cur>>) \o split_from(s, i + 1, <<>>)
       ELSE split_from(s, i + 1, Append(cur, s[i]))

split(s) == split_from(s, 1, <<>>)

\* " ".join(tokens)
RECURSIVE join(_)
join(tokens) ==
  IF tokens = <<>> THEN <<>>
  ELSE IF Len(tokens) = 1 THEN tokens[1]
  ELSE tokens[1] \o <<32>> \o join(Tail(tokens))

\* s.strip(): s without its leading and trailing whitespace
RECURSIVE lstrip(_)
lstrip(s) ==
  IF s # <<>> /\ s[1] \in Whitespace THEN lstrip(Tail(s)) ELSE s

RECURSIVE rstrip(_)
rstrip(s) ==
  IF s # <<>> /\ s[Len(s)] \in Whitespace
  THEN rstrip(SubSeq(s, 1, Len(s) - 1)) ELSE s

strip(s) == rstrip(lstrip(s))

\* ------------------------------------------------------------ the Normalizer
\* a plausible bug: the punctuation is deleted after the tokens are joined
basic_preprocess_punct_last(text) == translate(join(split(lower(text))))

\* app.py
basic_preprocess(text) == join(split(translate(lower(text))))

\* LLM_QA_CLI.py
cli_basic_preprocess(text) == join(split(translate(lower(text))))

\* all strings over the character set cs of length at most n
StringsUpTo(cs, n) == UNION {[1..k -> cs] : k \in 0..n}

\* ------------------------------------------------------- values and inputs
None == <<>>
Some(x) == <<x>>

\* the characters questions are typed with into the form: SPACE and H
QChars == {32, 72}
Questions == StringsUpTo(QChars, MaxQLen)

\* the characters lines are typed with at the console prompt: SPACE ! H
LineChars == {32, 33, 72}
Lines == StringsUpTo(LineChars, MaxQLen)

\* "ERROR: LLM Client failed to initialize. Check GEMINI_API_KEY setting."
ERR_CLIENT ==
  <<69, 82, 82, 79, 82, 58, 32, 76, 76, 77, 32, 67, 108, 105, 101, 110, 116,
    32, 102, 97, 105, 108, 101, 100, 32, 116, 111, 32, 105, 110, 105, 116, 105,
    97, 108, 105, 122, 101, 46, 32, 67, 104, 101, 99, 107, 32, 71, 69, 77, 73,
    78, 73, 95, 65, 80, 73, 95, 75, 69, 89, 32, 115, 101, 116, 116, 105, 110,
    103, 46>>
\* "Please enter a question."
PLEASE ==
  <<80, 108, 101, 97, 115, 101, 32, 101, 110, 116, 101, 114, 32, 97, 32, 113,
    117, 101, 115, 116, 105, 111, 110, 46>>
\* "An API Error occurred: "
API_PREFIX ==
  <<65, 110, 32, 65, 80, 73, 32, 69, 114, 114, 111, 114, 32, 111, 99, 99, 117,
    114, 114, 101, 100, 58, 32>>
\* "An unexpected error occurred: "
UNEXPECTED_PREFIX ==
  <<65, 110, 32, 117, 110, 101, 120, 112, 101, 99, 116, 101, 100, 32, 101, 114,
    114, 111, 114, 32, 111, 99, 99, 117, 114, 114, 101, 100, 58, 32>>
SYSTEM_INSTRUCTION ==
  "You are a helpful and concise Question-Answering system. Answer the user's question directly and professionally."
MODEL == "gemini-2.5-flash"

\* what the environment can hold under GEMINI_API_KEY: nothing, "" or "k"
ApiKeys == {None, Some(<<>>), Some(<<107>>)}

\* what one generate_content call can do: return a response whose text is
\* " Paris! ", raise APIError("rate limited"), or raise another
\* Exception("timed out")
Outcomes ==
  {[kind |-> "text", s |-> <<32, 80, 97, 114, 105, 115, 33, 32>>],
   [kind |-> "APIError", s |-> <<114, 97, 116, 101, 32, 108, 105, 109, 105, 116, 101, 100>>],
   [kind |-> "Exception", s |-> <<116, 105, 109, 101, 100, 32, 111, 117, 116>>]}

\* the console tool is also run against the response "Ok."
CliOutcomes == Outcomes \cup {[kind |-> "text", s |-> <<79, 107, 46>>]}

\* isinstance(e, cls) for an exception of class k: APIError derives from Exception
IsInstance(k, cls) == k = cls \/ (k = "APIError" /\ cls = "Exception")

Return(v) == [kind |-> "return", value |-> v]
Raise(v) == [kind |-> "raise", value |-> v]

Handlers == 1..MaxHandlers

VARIABLES
  nfile, npc, text, out1, out2,
  program, API_KEY, ctor_raises, client, ppc,
  hpc, req, context, call, reply,
  user_question, processed_q, llm_answer, cli_call, cli_reply, reads, calls

nvars == <<nfile, npc, text, out1, out2>>
evars == <<program, API_KEY, ctor_raises>>
wvars == <<hpc, req, context, call, reply>>
cvars == <<user_question, processed_q, llm_answer, cli_call, cli_reply, reads, calls>>
vars == <<nvars, evars, client, ppc, wvars, cvars>>

\* ------------------------------------------------------------------ app.py
\* bool(API_KEY)
Truthy(k) == k # None /\ k[1] # <<>>

\* the context dictionary index() starts from
EmptyContext ==
  [user_question |-> <<>>, original_question |-> <<>>,
   processed_question |-> <<>>, answer |-> None]

NoRequest == [method |-> "none", form |-> None]

\* the requests a browser can send: GET, or POST with the field "question"
\* absent or holding a string
Requests ==
  {[method |-> "GET", form |-> None]}
  \cup {[method |-> "POST", form |-> f] : f \in {None} \cup {Some(q) : q \in Questions}}

GenerateContent(question) ==
  [model |-> MODEL, contents |-> question, system_instruction |-> SYSTEM_INSTRUCTION]

\* a plausible bug: a missing key stops the web server as it stops the console
app_startup_fatal ==
  /\ program = "app" /\ ppc = "boot"
  /\ IF ~Truthy(API_KEY)
     THEN client' = "None" /\ ppc' = "exited"
     ELSE client' = (IF ctor_raises THEN "None" ELSE "Client") /\ ppc' = "serving"
  /\ UNCHANGED <<nvars, evars, wvars, cvars>>

\* the module-level code of app.py, up to the server accepting requests
app_startup ==
  /\ program = "app" /\ ppc = "boot"
  /\ client' = (IF ~Truthy(API_KEY) THEN "None"
                ELSE IF ctor_raises THEN "None" ELSE "Client")
  /\ ppc' = "serving"
  /\ UNCHANGED <<nvars, evars, wvars, cvars>>

\* a plausible bug: the test of the client is missing
get_llm_response_enter_unguarded(c) == [kind |-> "call", value |-> <<>>]

\* get_llm_response up to the outbound call: return at once without a client
get_llm_response_enter(c) ==
  IF c = "None" THEN Return(ERR_CLIENT) ELSE [kind |-> "call", value |-> <<>>]

\* a plausible bug: the broad clause comes first and hides the APIError clause
get_llm_response_return_swapped(o) ==
  IF o.kind = "text" THEN Return(o.s)
  ELSE IF IsInstance(o.kind, "Exception") THEN Return(UNEXPECTED_PREFIX \o o.s)
  ELSE IF IsInstance(o.kind, "APIError") THEN Return(API_PREFIX \o o.s)
  ELSE Raise(o.s)

\* a plausible bug: the answer is tidied before it is returned
get_llm_response_return_stripped(o) ==
  IF o.kind = "text" THEN Return(strip(o.s))
  ELSE IF IsInstance(o.kind, "APIError") THEN Return(API_PREFIX \o o.s)
  ELSE IF IsInstance(o.kind, "Exception") THEN Return(UNEXPECTED_PREFIX \o o.s)
  ELSE Raise(o.s)

\* get_llm_response from the outcome o of the outbound call to its result
get_llm_response_return(o) ==
  IF o.kind = "text" THEN Return(o.s)
  ELSE IF IsInstance(o.kind, "APIError") THEN Return(API_PREFIX \o o.s)
  ELSE IF IsInstance(o.kind, "Exception") THEN Return(UNEXPECTED_PREFIX \o o.s)
  ELSE Raise(o.s)

\* a plausible bug: the submitted field is tested as it was sent
form_question_unstripped(form) == IF form = None THEN <<>> ELSE form[1]

\* request.form.get('question', '').strip()
form_question(form) == strip(IF form = None THEN <<>> ELSE form[1])

\* index(), from the arrival of request r at handler h to the rendered page
\* or, for a question, to the outbound call get_llm_response blocks on
index(h, r) ==
  /\ program = "app" /\ ppc = "serving" /\ hpc[h] = "idle"
  /\ req' = [req EXCEPT ![h] = r]
  /\ reply' = [reply EXCEPT ![h] = None]
  /\ IF r.method = "POST"
     THEN LET uq == form_question(r.form) IN
       IF uq # <<>>
       THEN LET c1 == [EmptyContext EXCEPT !.original_question = uq,
                                           !.processed_question = basic_preprocess(uq)]
                e == get_llm_response_enter(client)
            IN IF e.kind = "return"
               THEN /\ context' = [context EXCEPT ![h] =
                                     [c1 EXCEPT !.answer = Some(e.value),
                                                !.user_question = uq]]
                    /\ call' = [call EXCEPT ![h] = None]
                    /\ hpc' = [hpc EXCEPT ![h] = "rendered"]
               ELSE /\ context' = [context EXCEPT ![h] = c1]
                    /\ call' = [call EXCEPT ![h] = Some(GenerateContent(uq))]
                    /\ hpc' = [hpc EXCEPT ![h] = "calling"]
       ELSE /\ context' = [context EXCEPT ![h] = [EmptyContext EXCEPT !.answer = Some(PLEASE)]]
            /\ call' = [call EXCEPT ![h] = None]
            /\ hpc' = [hpc EXCEPT ![h] = "rendered"]
     ELSE /\ context' = [context EXCEPT ![h] = EmptyContext]
          /\ call' = [call EXCEPT ![h] = None]
          /\ hpc' = [hpc EXCEPT ![h] = "rendered"]
  /\ UNCHANGED <<nvars, evars, client, ppc, cvars>>

\* the service ends the call of handler h with outcome o
generate_content(h, o) ==
  /\ program = "app" /\ hpc[h] = "calling"
  /\ reply' = [reply EXCEPT ![h] = Some(o)]
  /\ hpc' = [hpc EXCEPT ![h] = "replied"]
  /\ UNCHANGED <<nvars, evars, client, ppc, req, context, call, cvars>>

\* the handlers whose outbound call has ended
Replied == {g \in Handlers : reply[g] # None}

\* a plausible bug: the response is kept in one module-level variable, so a
\* handler may pick up the response to another handler's call
index_resume_shared(h) ==
  /\ program = "app" /\ hpc[h] = "replied"
  /\ \E g \in Replied :
       LET r == get_llm_response_return(reply[g][1]) IN
         /\ context' = [context EXCEPT ![h].answer = Some(r.value), ![h].user_question = context[h].original_question]
         /\ hpc' = [hpc EXCEPT ![h] = "rendered"]
  /\ UNCHANGED <<nvars, evars, client, ppc, req, call, reply, cvars>>

\* get_llm_response returns to index(), which renders the page; an exception
\* that get_llm_response let through would end the request with an error page
index_resume(h) ==
  /\ program = "app" /\ hpc[h] = "replied"
  /\ LET r == get_llm_response_return(reply[h][1]) IN
       IF r.kind = "return"
       THEN /\ context' = [context EXCEPT ![h].answer = Some(r.value),
                                          ![h].user_question = context[h].original_question]
            /\ hpc' = [hpc EXCEPT ![h] = "rendered"]
       ELSE /\ context' = context
            /\ hpc' = [hpc EXCEPT ![h] = "raised"]
  /\ UNCHANGED <<nvars, evars, client, ppc, req, call, reply, cvars>>

\* the page has been sent; the handler takes the next request
index_done(h) ==
  /\ program = "app" /\ hpc[h] \in {"rendered", "raised"}
  /\ hpc' = [hpc EXCEPT ![h] = "idle"]
  /\ req' = [req EXCEPT ![h] = NoRequest]
  /\ context' = [context EXCEPT ![h] = EmptyContext]
  /\ call' = [call EXCEPT ![h] = None]
  /\ reply' = [reply EXCEPT ![h] = None]
  /\ UNCHANGED <<nvars, evars, client, ppc, cvars>>

\* ----------------------------------------------------------- LLM_QA_CLI.py
\* the module-level code of LLM_QA_CLI.py: exit() without a key or without a
\* client, otherwise main() is entered and prompts
cli_startup ==
  /\ program = "cli" /\ ppc = "boot"
  /\ IF ~Truthy(API_KEY) THEN client' = client /\ ppc' = "exited"
     ELSE IF ctor_raises THEN client' = client /\ ppc' = "exited"
     ELSE client' = "Client" /\ ppc' = "main"
  /\ UNCHANGED <<nvars, evars, wvars, cvars>>

\* get_answer_from_llm from the outcome o of the outbound call to its result
get_answer_from_llm_return(o) ==
  IF o.kind = "text" THEN Return(o.s)
  ELSE IF IsInstance(o.kind, "APIError") THEN Return(API_PREFIX \o o.s)
  ELSE IF IsInstance(o.kind, "Exception") THEN Return(UNEXPECTED_PREFIX \o o.s)
  ELSE Raise(o.s)

\* a plausible bug: the preprocessed text is what is sent
main_sends_processed(line) ==
  /\ program = "cli" /\ ppc = "main"
  /\ reads' = reads + 1
  /\ user_question' = Some(line)
  /\ IF strip(line) = <<>>
     THEN ppc' = "done" /\ UNCHANGED <<processed_q, cli_call, calls>>
     ELSE /\ processed_q' = Some(cli_basic_preprocess(line))
          /\ cli_call' = Some(GenerateContent(cli_basic_preprocess(line)))
          /\ calls' = calls + 1
          /\ ppc' = "calling"
  /\ UNCHANGED <<nvars, evars, client, wvars, llm_answer, cli_reply>>

\* main(), from the line read at the prompt to its return for a blank line
\* or to the outbound call get_answer_from_llm blocks on
main(line) ==
  /\ program = "cli" /\ ppc = "main"
  /\ reads' = reads + 1
  /\ user_question' = Some(line)
  /\ IF strip(line) = <<>>
     THEN ppc' = "done" /\ UNCHANGED <<processed_q, cli_call, calls>>
     ELSE /\ processed_q' = Some(cli_basic_preprocess(line))
          /\ cli_call' = Some(GenerateContent(line))
          /\ calls' = calls + 1
          /\ ppc' = "calling"
  /\ UNCHANGED <<nvars, evars, client, wvars, llm_answer, cli_reply>>

\* the service ends the call of the console tool with outcome o
cli_generate_content(o) ==
  /\ program = "cli" /\ ppc = "calling"
  /\ cli_reply' = Some(o)
  /\ ppc' = "returned"
  /\ UNCHANGED <<nvars, evars, client, wvars, user_question, processed_q,
                 llm_answer, cli_call, reads, calls>>

\* a plausible bug: a failed call is sent again (up to twice)
main_resume_retries ==
  /\ program = "cli" /\ ppc = "returned"
  /\ LET r == get_answer_from_llm_return(cli_reply[1]) IN
       IF cli_reply[1].kind # "text" /\ calls < 3
       THEN /\ calls' = calls + 1
            /\ ppc' = "calling"
            /\ llm_answer' = llm_answer
       ELSE /\ llm_answer' = Some(r.value)
            /\ ppc' = "done"
            /\ calls' = calls
  /\ UNCHANGED <<nvars, evars, client, wvars, user_question, processed_q,
                 cli_call, cli_reply, reads>>

\* get_answer_from_llm returns to main(), which prints the answer and
\* returns; an exception it let through would end the process with a traceback
main_resume ==
  /\ program = "cli" /\ ppc = "returned"
  /\ LET r == get_answer_from_llm_return(cli_reply[1]) IN
       IF r.kind = "return"
       THEN llm_answer' = Some(r.value) /\ ppc' = "done"
       ELSE llm_answer' = llm_answer /\ ppc' = "crashed"
  /\ calls' = calls
  /\ UNCHANGED <<nvars, evars, client, wvars, user_question, processed_q,
                 cli_call, cli_reply, reads>>

\* ------------------------------------------------------------ specifications
NormOff ==
  /\ nfile = "off" /\ npc = "off" /\ text = <<>> /\ out1 = <<>> /\ out2 = <<>>

\* the environment the program is started in
EnvInit ==
  /\ API_KEY \in ApiKeys
  /\ ctor_raises \in BOOLEAN

ProgramInit ==
  /\ client = "unset"
  /\ ppc = "boot"
  /\ hpc = [h \in Handlers |-> "idle"]
  /\ req = [h \in Handlers |-> NoRequest]
  /\ context = [h \in Handlers |-> EmptyContext]
  /\ call = [h \in Handlers |-> None]
  /\ reply = [h \in Handlers |-> None]
  /\ user_question = None
  /\ processed_q = None
  /\ llm_answer = None
  /\ cli_call = None
  /\ cli_reply = None
  /\ reads = 0
  /\ calls = 0

\* one of the two programs is started
Init == NormOff /\ program \in {"app", "cli"} /\ EnvInit /\ ProgramInit

AppNext ==
  \/ app_startup
  \/ \E h \in Handlers, r \in Requests : index(h, r)
  \/ \E h \in Handlers, o \in Outcomes : generate_content(h, o)
  \/ \E h \in Handlers : index_resume(h)
  \/ \E h \in Handlers : index_done(h)

CliNext ==
  \/ cli_startup
  \/ \E line \in Lines : main(line)
  \/ \E o \in CliOutcomes : cli_generate_content(o)
  \/ main_resume

Next == AppNext \/ CliNext

Spec == Init /\ [][Next]_vars

\* the console tool alone; the interpreter goes on once the call has ended
CliInit == NormOff /\ program = "cli" /\ EnvInit /\ ProgramInit

SpecCli == CliInit /\ [][CliNext]_vars /\ WF_vars(main_resume)

\* the normalizer alone, on every string over Alphabet of at most MaxLen
\* characters
Normalizer(s) == IF nfile = "app" THEN basic_preprocess(s) ELSE cli_basic_preprocess(s)

NormInit ==
  /\ nfile \in {"app", "cli"}
  /\ text \in StringsUpTo(Alphabet, MaxLen)
  /\ npc = "input"
  /\ out1 = <<>>
  /\ out2 = <<>>
  /\ program = "off"
  /\ API_KEY = None
  /\ ctor_raises = FALSE
  /\ ProgramInit

\* processed = basic_preprocess(text)
Normalize ==
  /\ npc = "input"
  /\ out1' = Normalizer(text)
  /\ npc' = "once"
  /\ UNCHANGED <<nfile, text, out2, evars, client, ppc, wvars, cvars>>

\* basic_preprocess(processed)
NormalizeAgain ==
  /\ npc = "once"
  /\ out2' = Normalizer(out1)
  /\ npc' = "twice"
  /\ UNCHANGED <<nfile, text, out1, evars, client, ppc, wvars, cvars>>

NormNext == Normalize \/ NormalizeAgain

SpecNorm == NormInit /\ [][NormNext]_vars

\* -------------------------------------------------------------- properties
IsBlank(s) == \A i \in 1..Len(s) : s[i] \in Whitespace
FormText(f) == IF f = None THEN <<>> ELSE f[1]
StartsWith(s, p) == Len(p) <= Len(s) /\ SubSeq(s, 1, Len(p)) = p
Contains(s, sub) ==
  \E i \in 0..(Len(s) - Len(sub)) : SubSeq(s, i + 1, i + Len(sub)) = sub
NonWs(s) == SelectSeq(s, LAMBDA c : c \notin Whitespace)
\* t is s without leading and trailing whitespace
Trimmed(s, t) ==
  /\ t = <<>> \/ (t[1] \notin Whitespace /\ t[Len(t)] \notin Whitespace)
  /\ \E i \in 0..(Len(s) - Len(t)) :
       /\ SubSeq(s, i + 1, i + Len(t)) = t
       /\ IsBlank(SubSeq(s, 1, i))
       /\ IsBlank(SubSeq(s, i + Len(t) + 1, Len(s)))
\* handler h has rendered the page for a POST of a question
AnsweredQuestion(h) ==
  /\ hpc[h] = "rendered" /\ req[h].method = "POST"
  /\ ~IsBlank(FormText(req[h].form))

\* C1: normalizing a normalized string changes nothing:
\* basic_preprocess(basic_preprocess(s)) = basic_preprocess(s), in both files
C1_Idempotent == npc = "twice" => out2 = out1

C1_Witness ==
  /\ npc = "twice" /\ out2 = out1 /\ out1 # text /\ out1 # <<>>
  /\ \E i \in 1..Len(text) : text[i] \in Punctuation
  /\ \E i \in 1..Len(text) : text[i] \in Whitespace

\* what C2 says of the result out for the input s, but for the upper-case
\* letters: no punctuation, no whitespace at the ends, no two whitespace
\* characters in a row, a single space as the only separator, and the
\* non-whitespace characters are those of the lower-cased input, punctuation
\* deleted, in order
C2_Shape(s, out) ==
  /\ \A i \in 1..Len(out) : out[i] \notin Punctuation
  /\ out # <<>> => (out[1] \notin Whitespace /\ out[Len(out)] \notin Whitespace)
  /\ \A i \in 1..(Len(out) - 1) : ~(out[i] \in Whitespace /\ out[i + 1] \in Whitespace)
  /\ \A i \in 1..Len(out) : out[i] \in Whitespace => out[i] = 32
  /\ NonWs(out) = SelectSeq(lower(s), LAMBDA c : c \notin Whitespace /\ c \notin Punctuation)
  /\ (s = <<>> => out = <<>>)

\* C2 as stated: the result of basic_preprocess has no upper-case letter
\* (and the rest of the shape)
C2_Original ==
  npc = "once" =>
    /\ C2_Shape(text, out1)
    /\ \A i \in 1..Len(out1) : out1[i] \notin Uppercase

\* C2 as amended: the result of basic_preprocess has no character that
\* lower-casing would change (an upper-case letter with no lower-case form
\* stays), no ASCII punctuation, no whitespace at the ends, no two adjacent
\* whitespace characters, and its non-whitespace characters are those of the
\* lower-cased input without its punctuation, in order
C2_Normalized ==
  npc = "once" =>
    /\ C2_Shape(text, out1)
    /\ \A i \in 1..Len(out1) : lower_char(out1, i) = <<out1[i]>>

C2_Witness ==
  /\ npc = "once" /\ Len(text) = 3
  /\ text[1] \in Uppercase /\ text[2] \in Punctuation /\ text[3] \in Whitespace
  /\ Len(out1) = 1 /\ out1[1] # text[1]

\* C3: when the outbound call succeeds, the answer is the text of the
\* response, unchanged (get_llm_response and get_answer_from_llm)
C3_TextVerbatim ==
  /\ \A h \in Handlers :
       (hpc[h] \in {"rendered", "raised"} /\ reply[h] # None /\ reply[h][1].kind = "text")
         => (hpc[h] = "rendered" /\ context[h].answer = Some(reply[h][1].s))
  /\ (ppc \in {"done", "crashed"} /\ cli_reply # None /\ cli_reply[1].kind = "text")
       => (ppc = "done" /\ llm_answer = Some(cli_reply[1].s))

C3_Witness ==
  \E h \in Handlers :
    /\ hpc[h] = "rendered" /\ reply[h] # None /\ reply[h][1].kind = "text"
    /\ reply[h][1].s # strip(reply[h][1].s)
    /\ context[h].answer = Some(reply[h][1].s)

\* what C4 says of the answer a given to a call that ended with outcome o
C4_Message(o, a) ==
  /\ o.kind = "APIError" =>
       /\ a = Some(API_PREFIX \o o.s)
       /\ Contains(a[1], o.s)
       /\ ~StartsWith(a[1], UNEXPECTED_PREFIX)
  /\ o.kind = "Exception" =>
       /\ a = Some(UNEXPECTED_PREFIX \o o.s)
       /\ Contains(a[1], o.s)
       /\ ~StartsWith(a[1], API_PREFIX)

\* C4: a failed outbound call never raises out of the Answer Requester: an
\* APIError gives the API-error message with the error's text, any other
\* exception the unexpected-error message with its text, never the other way
C4_FailureIsMessage ==
  /\ \A h \in Handlers :
       /\ hpc[h] # "raised"
       /\ (hpc[h] = "rendered" /\ reply[h] # None) => C4_Message(reply[h][1], context[h].answer)
  /\ ppc # "crashed"
  /\ (ppc = "done" /\ cli_reply # None) => C4_Message(cli_reply[1], llm_answer)

C4_Witness ==
  /\ program = "cli" /\ ppc = "done" /\ cli_reply # None
  /\ cli_reply[1].kind = "APIError"
  /\ llm_answer = Some(API_PREFIX \o cli_reply[1].s)

\* C5: without a client (no key, or the construction failed) no outbound call
\* is made, and every question asked of get_llm_response is answered with the
\* fixed uninitialized-client message; the console tool has exited
C5_NoClientNoCall ==
  client # "Client" =>
    /\ \A h \in Handlers :
         /\ call[h] = None /\ reply[h] = None
         /\ hpc[h] \notin {"calling", "replied"}
         /\ AnsweredQuestion(h) => context[h].answer = Some(ERR_CLIENT)
    /\ cli_call = None /\ cli_reply = None /\ calls = 0
    /\ ppc \notin {"main", "calling", "returned"}

C5_Witness ==
  /\ program = "app" /\ Truthy(API_KEY) /\ ctor_raises /\ client = "None"
  /\ \E h \in Handlers :
       AnsweredQuestion(h) /\ context[h].answer = Some(ERR_CLIENT) /\ call[h] = None

\* C6: a POST whose question is absent, empty or blank gets the fixed
\* prompt-to-enter-text answer, empty question fields and no outbound call;
\* a GET gets no answer and no outbound call
C6_BlankNoCall ==
  \A h \in Handlers :
    /\ (req[h].method = "POST" /\ IsBlank(FormText(req[h].form))) =>
         /\ hpc[h] = "rendered"
         /\ context[h].answer = Some(PLEASE)
         /\ context[h].original_question = <<>>
         /\ context[h].processed_question = <<>>
         /\ call[h] = None /\ reply[h] = None
    /\ req[h].method = "GET" =>
         /\ hpc[h] = "rendered"
         /\ context[h] = EmptyContext
         /\ call[h] = None /\ reply[h] = None

C6_Witness ==
  /\ client = "Client"
  /\ \E h \in Handlers :
       /\ req[h].method = "POST" /\ req[h].form # None /\ req[h].form[1] # <<>>
       /\ IsBlank(req[h].form[1])
       /\ context[h].answer = Some(PLEASE)

\* C7 as stated: with no key the web server keeps running and every request
\* it handles is answered with the fixed client-unavailable error
C7_Original ==
  (program = "app" /\ ~Truthy(API_KEY)) =>
    /\ ppc # "exited"
    /\ \A h \in Handlers :
         hpc[h] = "rendered" => context[h].answer = Some(ERR_CLIENT)

\* C7 as amended: with no key the web server keeps running without a client,
\* and every POST of a non-blank question is answered with the fixed
\* client-unavailable error; a GET gets no answer and a blank POST the
\* prompt-to-enter-text message
C7_Degraded ==
  (program = "app" /\ ~Truthy(API_KEY)) =>
    /\ ppc \in {"boot", "serving"}
    /\ ppc = "serving" => client = "None"
    /\ \A h \in Handlers :
         /\ hpc[h] \in {"idle", "rendered"}
         /\ AnsweredQuestion(h) => context[h].answer = Some(ERR_CLIENT)
         /\ (hpc[h] = "rendered" /\ req[h].method = "POST" /\ IsBlank(FormText(req[h].form)))
              => context[h].answer = Some(PLEASE)
         /\ (hpc[h] = "rendered" /\ req[h].method = "GET") => context[h].answer = None

C7_Witness ==
  /\ program = "app" /\ API_KEY = None /\ ppc = "serving"
  /\ \E h \in Handlers : AnsweredQuestion(h) /\ context[h].answer = Some(ERR_CLIENT)
  /\ \E h \in Handlers : hpc[h] = "rendered" /\ req[h].method = "GET"

\* C8 as stated: the payload of the outbound call is the text the user
\* entered, unchanged, in both entry points
C8_Original ==
  /\ \A h \in Handlers :
       call[h] # None => call[h][1].contents = FormText(req[h].form)
  /\ cli_call # None => cli_call[1].contents = user_question[1]

\* C8 as amended: the payload of the outbound call is, in the console tool,
\* the line the user entered, unchanged, and in the web handler the submitted
\* field without its leading and trailing whitespace and otherwise unchanged;
\* the normalized text goes to the display fields only
C8_RawPayload ==
  /\ \A h \in Handlers :
       call[h] # None =>
         /\ Trimmed(FormText(req[h].form), call[h][1].contents)
         /\ call[h][1].contents # <<>>
         /\ context[h].original_question = call[h][1].contents
  /\ cli_call # None =>
       /\ cli_call[1].contents = user_question[1]
       /\ ~IsBlank(user_question[1])

C8_Witness ==
  \E h \in Handlers :
    /\ call[h] # None
    /\ call[h][1].contents # FormText(req[h].form)
    /\ call[h][1].contents # context[h].processed_question
    /\ context[h].processed_question # <<>>

\* C9: one run of the console tool reads at most one line and makes at most
\* one outbound call: none for a blank line, none without a key or a client
\* (it exits before it prompts), exactly one for a question; a call that has
\* ended is never sent again, the run ends once the call has ended, and
\* nothing happens after the end
C9_OneExchange ==
  /\ [](/\ reads <= 1 /\ calls <= 1
        /\ ppc # "crashed"
        /\ ppc = "exited" => (reads = 0 /\ calls = 0)
        /\ (~Truthy(API_KEY) \/ ctor_raises) => ppc \in {"boot", "exited"}
        /\ ppc = "done" => (reads = 1 /\ calls = (IF IsBlank(user_question[1]) THEN 0 ELSE 1))
        /\ ppc \in {"calling", "returned"} => calls = 1)
  /\ [][/\ ppc = "returned" => ppc' # "calling"
        /\ ppc \notin {"done", "exited"}]_vars
  /\ (ppc = "returned" ~> ppc = "done")

C9_Witness ==
  /\ program = "cli" /\ ppc = "done" /\ reads = 1 /\ calls = 1
  /\ cli_reply # None /\ cli_reply[1].kind # "text"

\* C10: the client is written at startup only, and whatever the interleaving
\* of the handlers, a rendered page carries the question of its own request,
\* the normalized form of that question, and the answer made from the outcome
\* of the outbound call made for that question
C10_NoInterference ==
  /\ [](\A h \in Handlers :
          AnsweredQuestion(h) =>
            /\ Trimmed(FormText(req[h].form), context[h].original_question)
            /\ context[h].user_question = context[h].original_question
            /\ context[h].processed_question = basic_preprocess(context[h].original_question)
            /\ IF call[h] = None
               THEN client = "None" /\ context[h].answer = Some(ERR_CLIENT)
               ELSE /\ call[h][1].contents = context[h].original_question
                    /\ reply[h] # None
                    /\ context[h].answer = Some(get_llm_response_return(reply[h][1]).value))
  /\ [][client' # client => ppc = "boot"]_vars

C10_Witness ==
  \E h \in Handlers, g \in Handlers :
    /\ h # g /\ AnsweredQuestion(h) /\ AnsweredQuestion(g)
    /\ reply[h] # None /\ reply[g] # None /\ reply[h] # reply[g]
    /\ context[h].original_question # context[g].original_question
    /\ context[h].answer # context[g].answer

====
